---- MODULE Spec2Model ----
(***************************************************************************)
(* Model of the molgenis commander request wrapper (mcmd/client/           *)
(* molgenis_client.py), the mdev request helpers (mdev/requests.py) and    *)
(* the two script runners (mcmd/commands/run.py, mdev/__main__.py).        *)
(***************************************************************************)
EXTENDS Integers, Sequences, FiniteSets, TLC

\* ------------------------------------------------------------------ bounds
\* deepest nesting of handle_request the model follows (Python stops at its
\* recursion limit with a RecursionError; the model does so at MaxDepth)
MaxDepth == 2
\* longest 'errors' list of an error payload
MaxErrors == 2
\* largest 'total' a query response reports
MaxTotal == 1
\* longest script file, in lines
MaxLines == 3

\* ------------------------------------------------------------- vocabulary
Absent == "<absent>"
\* a missing 'message' key (messages are sequences of text chunks)
AbsentMsg == <<"<absent>">>
Tokens == {"t1", "t2"}
NoReadPrefix == <<"No 'Read metadata' permission">>
MsgNoRead == <<"No 'Read metadata' permission", " on entity type">>
MsgOther == <<"Unknown entity">>
MsgThird == <<"Invalid value">>

\* a prefix test that accepts every message
StartsWith_any(s, p) == TRUE

\* str.startswith on messages kept as sequences of text chunks
StartsWith(s, p) ==
    /\ Len(s) >= Len(p)
    /\ SubSeq(s, 1, Len(p)) = p

\* one entry of the 'errors' list; Absent marks a missing key
ErrorEntries ==
    { [code |-> "DS04", message |-> MsgNoRead],
      [code |-> "DS04", message |-> MsgOther],
      [code |-> "X01", message |-> MsgOther],
      [code |-> Absent, message |-> MsgNoRead],
      [code |-> "X01", message |-> AbsentMsg] }

\* entries that follow the first one of a list
TailEntries == { [code |-> "X02", message |-> MsgThird] }

SeqsUpTo(S, n) == UNION { [1..k -> S] : k \in 0..n }

\* the 'errors' lists a server sends: empty, or any first entry followed by
\* up to MaxErrors - 1 further ones
ErrorLists ==
    {<<>>} \cup { <<e>> \o rest : e \in ErrorEntries,
                                  rest \in SeqsUpTo(TailEntries, MaxErrors - 1) }

\* response bodies: a JSON object with an 'errors' list, one with a single
\* 'errorMessage', one with neither key, one with 'total', one with 'token',
\* and a body that is not JSON
ErrorBodies ==
    { [kind |-> "errors", errors |-> es] : es \in ErrorLists }
      \cup { [kind |-> "errorMessage", errorMessage |-> MsgOther],
             [kind |-> "object"],
             [kind |-> "text"] }

OkBodies ==
    { [kind |-> "total", total |-> n] : n \in 0..MaxTotal }
      \cup { [kind |-> "token", token |-> t] : t \in Tokens }
      \cup { [kind |-> "object"] }

\* Content-Type header values as sequences of text chunks; <<>> is no header
ContentTypes == {<<>>, <<"application/json", ";charset=UTF-8">>, <<"text/html">>}

TransportFailure == [status |-> 0, ctype |-> <<>>, body |-> [kind |-> "none"]]

ErrorResponses ==
    { [status |-> s, ctype |-> c, body |-> b] :
        s \in {401, 404}, c \in ContentTypes, b \in ErrorBodies }

OkResponses ==
    { [status |-> 200, ctype |-> <<"application/json", ";charset=UTF-8">>, body |-> b] :
        b \in OkBodies }

\* everything one outbound call can come back with
Responses == {TransportFailure} \cup ErrorResponses \cup OkResponses

NoResponse == [status |-> -1, ctype |-> <<>>, body |-> [kind |-> "none"]]

\* ---------------------------------------------------------------- outcomes
Returned(v) == [kind |-> "return", value |-> v]
Raised(t, m) == [kind |-> "raise", type |-> t, message |-> m]
Pending == [kind |-> "pending"]

\* str(e) of the requests exception
StrHTTPError(response) == <<"HTTPError", response.status>>
StrRequestException == <<"RequestException">>

\* ------------------------------------------------------------------ enums
ResourceTypes == {"ENTITY_TYPE", "THEME", "PACKAGE", "PLUGIN"}

get_entity_id(rt) ==
    CASE rt = "ENTITY_TYPE" -> "sys_md_EntityType"
      [] rt = "THEME" -> "sys_set_StyleSheet"
      [] rt = "PACKAGE" -> "sys_md_Package"
      [] rt = "PLUGIN" -> "sys_Plugin"

get_resource_name(rt) ==
    CASE rt = "ENTITY_TYPE" -> "entityclass"
      [] rt = "THEME" -> "stylesheet"
      [] rt = "PACKAGE" -> "package"
      [] rt = "PLUGIN" -> "plugin"

get_label(rt) ==
    CASE rt = "ENTITY_TYPE" -> "Entity Type"
      [] rt = "THEME" -> "Stylesheet"
      [] rt = "PACKAGE" -> "Package"
      [] rt = "PLUGIN" -> "Plugin"

PrincipalType == {"USER", "ROLE"}
\* values a caller can pass as principal_type; "GROUP" is not a PrincipalType
PrincipalArgs == PrincipalType \cup {"GROUP"}

PrincipalValue(pt) == IF pt = "USER" THEN "user" ELSE "role"

\* ------------------------------------------------- request wrapper helpers
Contains(seq, x) == \E i \in 1..Len(seq) : seq[i] = x

is_json(response) ==
    /\ response.ctype /= <<>>
    /\ Contains(response.ctype, "application/json")

\* response.json(): the parsed body, or a ValueError for a body that is not JSON
json(response) ==
    IF response.body.kind = "text"
    THEN Raised("ValueError", <<"No JSON object could be decoded">>)
    ELSE Returned(response.body)

token_is_valid(response) ==
    IF response.status = 401 /\ is_json(response)
    THEN LET j == json(response) IN
         IF j.kind = "raise" THEN j
         ELSE IF j.value.kind /= "errors" THEN Raised("KeyError", <<"errors">>)
         ELSE IF Len(j.value.errors) = 0 THEN Raised("IndexError", <<"list index out of range">>)
         ELSE LET error == j.value.errors[1] IN
              IF /\ error.code /= Absent
                 /\ error.code = "DS04"
                 /\ error.message /= AbsentMsg
                 /\ StartsWith(error.message, NoReadPrefix)
              THEN Returned(FALSE)
              ELSE Returned(TRUE)
    ELSE Returned(TRUE)

\* None when nothing is raised
handle_json_error(response_json) ==
    IF response_json.kind = "errors"
    THEN IF Len(response_json.errors) = 0 THEN Returned("None")
         ELSE LET error == response_json.errors[1] IN
              IF error.message = AbsentMsg THEN Raised("KeyError", <<"message">>)
              ELSE Raised("McmdError", error.message)
    ELSE IF response_json.kind = "errorMessage"
    THEN Raised("McmdError", response_json.errorMessage)
    ELSE Returned("None")

\* lines 71-73 of handle_request: what the except block raises in the end
decode_error(response) ==
    IF is_json(response)
    THEN LET j == json(response) IN
         IF j.kind = "raise" THEN j
         ELSE LET h == handle_json_error(j.value) IN
              IF h.kind = "raise" THEN h
              ELSE Raised("McmdError", StrHTTPError(response))
    ELSE Raised("McmdError", StrHTTPError(response))

\* ------------------------------------------------------ resource operations
Identifiers == {"it_emx"}
\* the resource types the operations are called with
QueriedTypes == {"ENTITY_TYPE", "PLUGIN"}
GrantedTypes == {"PACKAGE"}
PrincipalNames == {"curator", "CURATOR"}
Permissions == {"write"}
Urls == {<<"rest2/", "version">>}

\* a name passed on in the case it came in
Upper_unchanged(name) == name

\* str.upper() on the names the operations are called with
Upper(name) == IF name = "curator" THEN "CURATOR" ELSE name

NoArgs == [principal_type |-> Absent, principal_name |-> Absent,
           resource_type |-> Absent, identifier |-> Absent,
           permission |-> Absent, url |-> Absent]

\* the requests.* call each wrapped function makes, or the error it raises
\* before making one
get(url, tok) ==
    Returned([method |-> "GET", url |-> url, data |-> {},
              ctype |-> "application/json", token |-> tok])

\* a grant that treats every principal type that is not USER as a role
grant_no_type_check(principal_type, principal_name, resource_type, identifier, permission, tok) ==
    LET data == {<<"radio-", identifier, permission>>} IN
    IF principal_type = "USER"
    THEN Returned([method |-> "POST",
                   url |-> <<"perm", get_resource_name(resource_type), "/", PrincipalValue(principal_type)>>,
                   data |-> data \cup {<<"username", principal_name, "">>},
                   ctype |-> "application/x-www-form-urlencoded; charset=UTF-8",
                   token |-> tok])
    ELSE Returned([method |-> "POST",
                   url |-> <<"perm", get_resource_name(resource_type), "/", PrincipalValue(principal_type)>>,
                   data |-> data \cup {<<"rolename", Upper(principal_name), "">>},
                   ctype |-> "application/x-www-form-urlencoded; charset=UTF-8",
                   token |-> tok])

grant(principal_type, principal_name, resource_type, identifier, permission, tok) ==
    LET data == {<<"radio-", identifier, permission>>} IN
    IF principal_type = "USER"
    THEN Returned([method |-> "POST",
                   url |-> <<"perm", get_resource_name(resource_type), "/", PrincipalValue(principal_type)>>,
                   data |-> data \cup {<<"username", principal_name, "">>},
                   ctype |-> "application/x-www-form-urlencoded; charset=UTF-8",
                   token |-> tok])
    ELSE IF principal_type = "ROLE"
    THEN Returned([method |-> "POST",
                   url |-> <<"perm", get_resource_name(resource_type), "/", PrincipalValue(principal_type)>>,
                   data |-> data \cup {<<"rolename", Upper(principal_name), "">>},
                   ctype |-> "application/x-www-form-urlencoded; charset=UTF-8",
                   token |-> tok])
    ELSE Raised("McmdError", <<"Unknown principal type: ", principal_type>>)

resource_exists_url(resource_id, resource_type) ==
    <<"rest2/", get_entity_id(resource_type), "?q=id==", resource_id>>

\* a comparison that takes a total of 0 as existing
resource_exists_ge(w) ==
    IF w.kind = "raise" THEN w
    ELSE IF w.value.body.kind /= "total" THEN Raised("KeyError", <<"total">>)
    ELSE Returned(w.value.body.total >= 0)

\* lines 162-163 applied to what get() came back with
resource_exists(w) ==
    IF w.kind = "raise" THEN w
    ELSE IF w.value.body.kind /= "total" THEN Raised("KeyError", <<"total">>)
    ELSE Returned(w.value.body.total > 0)

ensure_resource_exists(w, resource_id, resource_type) ==
    LET e == resource_exists(w) IN
    IF e.kind = "raise" THEN e
    ELSE IF ~e.value
    THEN Raised("McmdError", <<"No ", get_label(resource_type), " found with id ", resource_id>>)
    ELSE Returned("None")

\* lines 198 and 204: the queries of user_exists and role_exists
user_exists_url(username) ==
    <<"rest2/", "sys_sec_User?q=username==", username>>

role_exists_url(rolename) ==
    <<"rest2/", "sys_sec_Role?q=name==", Upper(rolename)>>

\* lines 199 and 205 applied to what get() came back with
user_exists(w) ==
    IF w.kind = "raise" THEN w
    ELSE IF w.value.body.kind /= "total" THEN Raised("KeyError", <<"total">>)
    ELSE Returned(w.value.body.total > 0)

role_exists(w) ==
    IF w.kind = "raise" THEN w
    ELSE IF w.value.body.kind /= "total" THEN Raised("KeyError", <<"total">>)
    ELSE Returned(w.value.body.total > 0)

\* lines 182-188: the query principal_exists makes through user_exists or
\* role_exists, or the error it raises without making one
principal_exists(principal_name, principal_type, tok) ==
    IF principal_type = "USER" THEN get(user_exists_url(principal_name), tok)
    ELSE IF principal_type = "ROLE" THEN get(role_exists_url(principal_name), tok)
    ELSE Raised("McmdError", <<"Unknown principal type: ", principal_type>>)

\* ------------------------------------------------------------------- state
VARIABLES
    program,        \* which executable this process is: "mcmd" or "mdev"
    pc,             \* "idle", "wrapped", "done", "script", "exited"
    token,          \* the session token (auth.token / mdev.requests.token)
    call,           \* the operation in progress and its arguments
    stack,          \* activations of handle_request, innermost last
    wrapped,        \* what the outermost handle_request came back with
    result,         \* what the operation came back with
    sent,           \* requests sent on the network during this operation
    received,       \* the responses to them
    logins,         \* outcome of each auth.login() during this operation
    log,            \* messages written to the error log
    script,         \* lines of the script file being run
    ignore_errors,  \* args.ignore_errors
    idx,            \* number of script lines the loop has consumed
    dispatched,     \* indices of the lines handed to the command dispatcher
    history         \* lines written to the history file

vars == <<program, pc, token, call, stack, wrapped, result, sent, received,
          logins, log, script, ignore_errors, idx, dispatched, history>>

callVars == <<call, stack, wrapped, result, sent, received, logins>>
scriptVars == <<script, ignore_errors, idx, dispatched, history>>

Init ==
    /\ program \in {"mcmd", "mdev"}
    /\ pc = "idle"
    /\ token = ""
    /\ call = [op |-> "none", args |-> NoArgs]
    /\ stack = <<>>
    /\ wrapped = Pending
    /\ result = Pending
    /\ sent = <<>>
    /\ received = <<>>
    /\ logins = <<>>
    /\ log = <<>>
    /\ script = <<>>
    /\ ignore_errors = FALSE
    /\ idx = 0
    /\ dispatched = <<>>
    /\ history = <<>>

\* ------------------------------------------------- mcmd: wrapped operations
Frame(p, r) == [pc |-> p, response |-> r]
Top == stack[Len(stack)]
SetTop(f) == [stack EXCEPT ![Len(stack)] = f]

\* a wrapped operation is entered: handle_request(*args, **kwargs) starts
Enter(op, args) ==
    /\ program = "mcmd"
    /\ pc = "idle"
    /\ pc' = "wrapped"
    /\ call' = [op |-> op, args |-> args]
    /\ stack' = <<Frame("try", NoResponse)>>
    /\ wrapped' = Pending
    /\ result' = Pending
    /\ sent' = <<>>
    /\ received' = <<>>
    /\ logins' = <<>>
    /\ UNCHANGED <<program, token, log, scriptVars>>

CallGet ==
    \E u \in Urls : Enter("get", [NoArgs EXCEPT !.url = u])

CallGrant ==
    \E pt \in PrincipalArgs, pn \in PrincipalNames, rt \in GrantedTypes,
       id \in Identifiers, perm \in Permissions :
        Enter("grant", [NoArgs EXCEPT !.principal_type = pt, !.principal_name = pn,
                                      !.resource_type = rt, !.identifier = id,
                                      !.permission = perm])

CallResourceExists ==
    \E id \in Identifiers, rt \in QueriedTypes :
        Enter("resource_exists", [NoArgs EXCEPT !.identifier = id, !.resource_type = rt])

CallEnsureResourceExists ==
    \E id \in Identifiers, rt \in QueriedTypes :
        Enter("ensure_resource_exists", [NoArgs EXCEPT !.identifier = id, !.resource_type = rt])

CallRoleExists ==
    \E pn \in PrincipalNames :
        Enter("role_exists", [NoArgs EXCEPT !.principal_name = pn])

CallPrincipalExists ==
    \E pn \in PrincipalNames, pt \in PrincipalArgs :
        Enter("principal_exists", [NoArgs EXCEPT !.principal_name = pn, !.principal_type = pt])

\* a retry that sends the headers built for the first attempt again
func_first_headers(c, tok) ==
    LET stale == IF sent = <<>> THEN tok ELSE sent[1].token IN
    IF c.op = "grant"
    THEN grant(c.args.principal_type, c.args.principal_name, c.args.resource_type,
               c.args.identifier, c.args.permission, stale)
    ELSE IF c.op = "get"
    THEN get(c.args.url, stale)
    ELSE IF c.op = "role_exists"
    THEN get(role_exists_url(c.args.principal_name), stale)
    ELSE IF c.op = "principal_exists"
    THEN principal_exists(c.args.principal_name, c.args.principal_type, stale)
    ELSE get(resource_exists_url(c.args.identifier, c.args.resource_type), stale)

\* func(*args, **kwargs) for the operation in progress
func(c, tok) ==
    IF c.op = "grant"
    THEN grant(c.args.principal_type, c.args.principal_name, c.args.resource_type,
               c.args.identifier, c.args.permission, tok)
    ELSE IF c.op = "get"
    THEN get(c.args.url, tok)
    ELSE IF c.op = "role_exists"
    THEN get(role_exists_url(c.args.principal_name), tok)
    ELSE IF c.op = "principal_exists"
    THEN principal_exists(c.args.principal_name, c.args.principal_type, tok)
    ELSE get(resource_exists_url(c.args.identifier, c.args.resource_type), tok)

\* what the operation makes of the wrapper's outcome
finish(c, w) ==
    IF c.op = "resource_exists" THEN resource_exists(w)
    ELSE IF c.op = "role_exists" THEN role_exists(w)
    ELSE IF c.op = "principal_exists"
    THEN IF c.args.principal_type = "USER" THEN user_exists(w) ELSE role_exists(w)
    ELSE IF c.op = "ensure_resource_exists"
    THEN ensure_resource_exists(w, c.args.identifier, c.args.resource_type)
    ELSE w

\* an exception leaves handle_request: no activation below catches it, since
\* every caller activation is itself inside its except block
Raise(e) ==
    /\ stack' = <<>>
    /\ wrapped' = e
    /\ result' = finish(call, e)
    /\ pc' = "done"

\* handle_request returns response (line 66); an inner activation's value is
\* dropped by its caller (line 70), which goes on to line 71
Return(response) ==
    IF Len(stack) = 1
    THEN /\ stack' = <<>>
         /\ wrapped' = Returned(response)
         /\ result' = finish(call, Returned(response))
         /\ pc' = "done"
    ELSE /\ stack' = [SubSeq(stack, 1, Len(stack) - 1) EXCEPT ![Len(stack) - 1].pc = "decode"]
         /\ UNCHANGED <<wrapped, result, pc>>

\* lines 63-66, 74-75: call func, raise_for_status
Try ==
    /\ pc = "wrapped"
    /\ Top.pc = "try"
    /\ LET f == func(call, token) IN
       IF f.kind = "raise"
       THEN /\ Raise(f)
            /\ UNCHANGED <<sent, received>>
       ELSE \E r \in Responses :
            /\ sent' = Append(sent, f.value)
            /\ received' = Append(received, r)
            /\ IF r = TransportFailure
               THEN Raise(Raised("McmdError", StrRequestException))
               ELSE IF r.status < 400
               THEN Return(r)
               ELSE /\ stack' = SetTop(Frame("except", r))
                    /\ UNCHANGED <<wrapped, result, pc>>
    /\ UNCHANGED <<program, token, call, logins, log, scriptVars>>

\* line 68
ExceptHTTPError ==
    /\ pc = "wrapped"
    /\ Top.pc = "except"
    /\ LET v == token_is_valid(Top.response) IN
       IF v.kind = "raise"
       THEN Raise(v)
       ELSE /\ stack' = SetTop(Frame(IF v.value THEN "decode" ELSE "login", Top.response))
            /\ UNCHANGED <<wrapped, result, pc>>
    /\ UNCHANGED <<program, token, call, sent, received, logins, log, scriptVars>>

\* mcmd.client.auth.login(): the token the server issued, which login stores,
\* or an AuthError
auth_login == { Returned(t) : t \in Tokens } \cup { Raised("AuthError", <<"login failed">>) }

\* a login whose failure is swallowed, so that the retry goes ahead
Login_failure_ignored ==
    /\ pc = "wrapped"
    /\ Top.pc = "login"
    /\ \E l \in auth_login :
        IF l.kind = "return"
        THEN /\ token' = l.value
             /\ logins' = Append(logins, l.value)
             /\ stack' = SetTop(Frame("retry", Top.response))
             /\ UNCHANGED <<wrapped, result, pc>>
        ELSE /\ logins' = Append(logins, "failed")
             /\ stack' = SetTop(Frame("retry", Top.response))
             /\ UNCHANGED <<wrapped, result, pc, token>>
    /\ UNCHANGED <<program, call, sent, received, log, scriptVars>>

\* line 69: auth.login(); an error it raises leaves handle_request
Login ==
    /\ pc = "wrapped"
    /\ Top.pc = "login"
    /\ \E l \in auth_login :
        IF l.kind = "return"
        THEN /\ token' = l.value
             /\ logins' = Append(logins, l.value)
             /\ stack' = SetTop(Frame("retry", Top.response))
             /\ UNCHANGED <<wrapped, result, pc>>
        ELSE /\ logins' = Append(logins, "failed")
             /\ Raise(l)
             /\ UNCHANGED token
    /\ UNCHANGED <<program, call, sent, received, log, scriptVars>>

\* line 70: handle_request(*args, **kwargs) from inside the except block
Retry ==
    /\ pc = "wrapped"
    /\ Top.pc = "retry"
    /\ IF Len(stack) < MaxDepth
       THEN /\ stack' = Append(SetTop(Frame("wait", Top.response)), Frame("try", NoResponse))
            /\ UNCHANGED <<wrapped, result, pc>>
       ELSE Raise(Raised("RecursionError", <<"maximum recursion depth exceeded">>))
    /\ UNCHANGED <<program, token, call, sent, received, logins, log, scriptVars>>

\* an except block that inspects the response again instead of raising
Decode_inspects_again ==
    /\ pc = "wrapped"
    /\ Top.pc = "decode"
    /\ stack' = SetTop(Frame("except", Top.response))
    /\ UNCHANGED <<program, pc, token, call, wrapped, result, sent, received, logins,
                   log, scriptVars>>

\* lines 71-73
Decode ==
    /\ pc = "wrapped"
    /\ Top.pc = "decode"
    /\ Raise(decode_error(Top.response))
    /\ UNCHANGED <<program, token, call, sent, received, logins, log, scriptVars>>

\* ----------------------------------------------------- mdev: requests.py
\* _handle_request(request): the response, or the process exits with status 1
\* after logging; lg is the log so far
mdev_handle_request(response, lg) ==
    IF response = TransportFailure
    THEN [out |-> Raised("SystemExit", <<1>>), log |-> Append(lg, StrRequestException)]
    ELSE IF response.status < 400
    THEN [out |-> Returned(response), log |-> lg]
    ELSE IF response.ctype = <<>>
    THEN [out |-> Raised("TypeError", <<"argument of type 'NoneType' is not iterable">>), log |-> lg]
    ELSE IF Contains(response.ctype, "application/json")
    THEN LET j == json(response) IN
         IF j.kind = "raise" THEN [out |-> j, log |-> lg]
         ELSE IF j.value.kind = "errors"
         THEN LET es == j.value.errors
                  bad == { i \in 1..Len(es) : es[i].message = AbsentMsg }
                  n == IF bad = {} THEN Len(es)
                       ELSE (CHOOSE i \in bad : \A k \in bad : i <= k) - 1
                  logged == lg \o [i \in 1..n |-> es[i].message]
              IN IF bad = {}
                 THEN [out |-> Raised("SystemExit", <<1>>), log |-> logged]
                 ELSE [out |-> Raised("KeyError", <<"message">>), log |-> logged]
         ELSE [out |-> Raised("SystemExit", <<1>>), log |-> Append(lg, StrHTTPError(response))]
    ELSE [out |-> Raised("SystemExit", <<1>>), log |-> Append(lg, StrHTTPError(response))]

mdev_request(method, url, data, tok) ==
    [method |-> method, url |-> url, data |-> data, ctype |-> "application/json", token |-> tok]

\* login(): lines 13-24; the token after the call and what login came back with
login(response, tok, lg) ==
    LET h == mdev_handle_request(response, lg) IN
    IF h.out.kind = "raise"
    THEN [token |-> tok, out |-> h.out, log |-> h.log]
    ELSE IF response.body.kind /= "token"
    THEN [token |-> tok, out |-> Raised("KeyError", <<"token">>), log |-> h.log]
    ELSE [token |-> response.body.token, out |-> Returned("None"), log |-> h.log]

\* an uncaught exception ends the process; a return leaves it running
MdevFinish(op, out) ==
    /\ call' = [op |-> op, args |-> NoArgs]
    /\ stack' = <<>>
    /\ wrapped' = out
    /\ result' = out
    /\ logins' = <<>>
    /\ pc' = IF out.kind = "raise" THEN "exited" ELSE "done"

MdevLogin ==
    /\ program = "mdev"
    /\ pc = "idle"
    /\ \E r \in Responses :
        LET l == login(r, token, log) IN
        /\ sent' = <<mdev_request("POST", <<"login">>, {<<"username", "password">>}, token)>>
        /\ received' = <<r>>
        /\ token' = l.token
        /\ log' = l.log
        /\ MdevFinish("login", l.out)
    /\ UNCHANGED <<program, scriptVars>>

MdevGet ==
    /\ program = "mdev"
    /\ pc = "idle"
    /\ \E r \in Responses, u \in Urls :
        LET h == mdev_handle_request(r, log) IN
        /\ sent' = <<mdev_request("GET", u, {}, token)>>
        /\ received' = <<r>>
        /\ log' = h.log
        /\ MdevFinish("get", h.out)
    /\ UNCHANGED <<program, token, scriptVars>>

MdevPost ==
    /\ program = "mdev"
    /\ pc = "idle"
    /\ \E r \in Responses, u \in Urls :
        LET h == mdev_handle_request(r, log) IN
        /\ sent' = <<mdev_request("POST", u, {<<"name", "label">>}, token)>>
        /\ received' = <<r>>
        /\ log' = h.log
        /\ MdevFinish("post", h.out)
    /\ UNCHANGED <<program, token, scriptVars>>

\* ---------------------------------------------------------- script runners
\* script lines as text chunks; " " is the separator line.split(' ') cuts at
ScriptLines ==
    { <<"run", " ", "nested">>,
      <<"add", " ", "user", " ", "bob">>,
      <<"make", " ", "bob", " ", "admin">>,
      <<"import", " ", "data">> }

Scripts == SeqsUpTo(ScriptLines, MaxLines)

RECURSIVE Split(_)
Split(line) ==
    IF line = <<>> THEN <<>>
    ELSE IF Head(line) = " " THEN Split(Tail(line))
    ELSE <<Head(line)>> \o Split(Tail(line))

\* arg_parser.parse_args / parse_arg_string: the command is the first word
parse_args(words) == [command |-> words[1], arguments |-> Tail(words)]

\* ' '.join(words)
RECURSIVE Join(_)
Join(words) ==
    IF words = <<>> THEN <<>>
    ELSE IF Len(words) = 1 THEN <<Head(words)>>
    ELSE <<Head(words), " ">> \o Join(Tail(words))

\* history.write(line): the line is appended to the history file
history_write(h, line) == Append(h, line)

\* the flag taken over without the negation
exit_on_error_flipped(ignore) == ignore

\* run.py line 38, __main__.py line 30
exit_on_error(ignore) == ~ignore

\* the command dispatcher (the command decorator of mcmd, execute of mdev):
\* a failing command ends the process when exit_on_error, else it is logged
execute(ok, exit) ==
    IF ok THEN "continue"
    ELSE IF exit THEN "exit" ELSE "logged"

ScriptStart(lines, ignore) ==
    /\ pc' = "script"
    /\ script' = lines
    /\ ignore_errors' = ignore
    /\ idx' = 0
    /\ dispatched' = <<>>
    /\ call' = [op |-> "run", args |-> NoArgs]
    /\ stack' = <<>>
    /\ wrapped' = Pending
    /\ result' = Pending
    /\ sent' = <<>>
    /\ received' = <<>>
    /\ logins' = <<>>

\* run.py lines 30-38: the script is read, or reading it fails
McmdRun ==
    /\ program = "mcmd"
    /\ pc = "idle"
    /\ call.op = "none"
    /\ \/ \E lines \in Scripts, ignore \in BOOLEAN :
            ScriptStart(lines, ignore)
       \/ /\ pc' = "done"
          /\ call' = [op |-> "run", args |-> NoArgs]
          /\ result' = Raised("McmdError", <<"Error reading script: ">>)
          /\ wrapped' = Pending
          /\ stack' = <<>>
          /\ sent' = <<>>
          /\ received' = <<>>
          /\ logins' = <<>>
          /\ script' = <<>>
          /\ idx' = 0
          /\ dispatched' = <<>>
          /\ UNCHANGED ignore_errors
    /\ UNCHANGED <<program, token, log, history>>

\* run.py lines 39-45: one turn of the loop
McmdRunLine ==
    /\ program = "mcmd"
    /\ pc = "script"
    /\ idx < Len(script)
    /\ LET line == script[idx + 1]
           sub_args == parse_args(Split(line))
       IN IF sub_args.command = "run"
          THEN /\ result' = Raised("McmdError", <<"Can't use the run command in a script: ">> \o line)
               /\ pc' = "done"
               /\ UNCHANGED <<idx, dispatched, log, history>>
          ELSE \E ok \in BOOLEAN :
               LET e == execute(ok, exit_on_error(ignore_errors))
                   arg_string == line
               IN
               /\ history' = history_write(history, arg_string)
               /\ dispatched' = Append(dispatched, [line |-> idx + 1, ok |-> ok])
               /\ idx' = idx + 1
               /\ log' = IF ok THEN log ELSE Append(log, <<"error: ">> \o line)
               /\ IF e = "exit"
                  THEN /\ pc' = "exited"
                       /\ result' = Raised("SystemExit", <<1>>)
                  ELSE UNCHANGED <<pc, result>>
    /\ UNCHANGED <<program, token, call, stack, wrapped, sent, received, logins,
                   script, ignore_errors>>

\* the loop is over: run returns
McmdRunEnd ==
    /\ program = "mcmd"
    /\ pc = "script"
    /\ idx = Len(script)
    /\ pc' = "done"
    /\ result' = Returned("None")
    /\ UNCHANGED <<program, token, call, stack, wrapped, sent, received, logins,
                   log, scriptVars>>

\* __main__.py lines 18-19, 25-30: main hands a run command to run, which
\* reads the script; an unreadable file is an uncaught OSError
MdevRun ==
    /\ program = "mdev"
    /\ pc = "idle"
    /\ call.op = "none"
    /\ \/ \E lines \in Scripts, ignore \in BOOLEAN :
            ScriptStart(lines, ignore)
       \/ /\ pc' = "exited"
          /\ call' = [op |-> "run", args |-> NoArgs]
          /\ result' = Raised("OSError", <<"No such file or directory">>)
          /\ wrapped' = Pending
          /\ stack' = <<>>
          /\ sent' = <<>>
          /\ received' = <<>>
          /\ logins' = <<>>
          /\ script' = <<>>
          /\ idx' = 0
          /\ dispatched' = <<>>
          /\ UNCHANGED ignore_errors
    /\ UNCHANGED <<program, token, log, history>>

\* a loop that writes the history only once execute has come back
MdevRunLine_history_after ==
    /\ program = "mdev"
    /\ pc = "script"
    /\ idx < Len(script)
    /\ LET line == script[idx + 1]
           sub_args == parse_args(Split(line))
       IN IF sub_args.command = "run"
          THEN /\ log' = Append(log, <<"Can't use the run command in a script: ">> \o line)
               /\ IF exit_on_error(ignore_errors)
                  THEN /\ pc' = "exited"
                       /\ result' = Raised("SystemExit", <<1>>)
                       /\ UNCHANGED idx
                  ELSE /\ idx' = idx + 1
                       /\ UNCHANGED <<pc, result>>
               /\ UNCHANGED <<dispatched, history>>
          ELSE \E ok \in BOOLEAN :
               LET e == execute(ok, exit_on_error(ignore_errors)) IN
               /\ history' = IF e = "exit" THEN history ELSE history_write(history, line)
               /\ dispatched' = Append(dispatched, [line |-> idx + 1, ok |-> ok])
               /\ idx' = idx + 1
               /\ log' = IF ok THEN log ELSE Append(log, <<"error: ">> \o line)
               /\ IF e = "exit"
                  THEN /\ pc' = "exited"
                       /\ result' = Raised("SystemExit", <<1>>)
                  ELSE UNCHANGED <<pc, result>>
    /\ UNCHANGED <<program, token, call, stack, wrapped, sent, received, logins,
                   script, ignore_errors>>

\* __main__.py lines 32-42: one turn of the loop
MdevRunLine ==
    /\ program = "mdev"
    /\ pc = "script"
    /\ idx < Len(script)
    /\ LET line == script[idx + 1]
           sub_args == parse_args(Split(line))
       IN IF sub_args.command = "run"
          THEN /\ log' = Append(log, <<"Can't use the run command in a script: ">> \o line)
               /\ IF exit_on_error(ignore_errors)
                  THEN /\ pc' = "exited"
                       /\ result' = Raised("SystemExit", <<1>>)
                       /\ UNCHANGED idx
                  ELSE /\ idx' = idx + 1
                       /\ UNCHANGED <<pc, result>>
               /\ UNCHANGED <<dispatched, history>>
          ELSE \E ok \in BOOLEAN :
               LET e == execute(ok, exit_on_error(ignore_errors)) IN
               /\ history' = history_write(history, line)
               /\ dispatched' = Append(dispatched, [line |-> idx + 1, ok |-> ok])
               /\ idx' = idx + 1
               /\ log' = IF ok THEN log ELSE Append(log, <<"error: ">> \o line)
               /\ IF e = "exit"
                  THEN /\ pc' = "exited"
                       /\ result' = Raised("SystemExit", <<1>>)
                  ELSE UNCHANGED <<pc, result>>
    /\ UNCHANGED <<program, token, call, stack, wrapped, sent, received, logins,
                   script, ignore_errors>>

\* __main__.py lines 18-22: a command other than run given on the command
\* line; script holds that one command line
MdevMain ==
    /\ program = "mdev"
    /\ pc = "idle"
    /\ call.op = "none"
    /\ \E l \in ScriptLines, ok \in BOOLEAN :
        LET argv == Split(l)
            args == parse_args(argv)
            e == execute(ok, TRUE)
        IN
        /\ args.command /= "run"
        /\ history' = history_write(history, Join(argv))
        /\ script' = <<Join(argv)>>
        /\ dispatched' = <<[line |-> 1, ok |-> ok]>>
        /\ idx' = 1
        /\ log' = IF ok THEN log ELSE Append(log, <<"error: ">> \o Join(argv))
        /\ call' = [op |-> "command", args |-> NoArgs]
        /\ pc' = IF e = "exit" THEN "exited" ELSE "done"
        /\ result' = IF e = "exit" THEN Raised("SystemExit", <<1>>) ELSE Returned("None")
    /\ UNCHANGED <<program, token, stack, wrapped, sent, received, logins, ignore_errors>>

MdevRunEnd ==
    /\ program = "mdev"
    /\ pc = "script"
    /\ idx = Len(script)
    /\ pc' = "done"
    /\ result' = Returned("None")
    /\ UNCHANGED <<program, token, call, stack, wrapped, sent, received, logins,
                   log, scriptVars>>

\* the operation's caller has taken its result and the command goes on (the
\* locals of the finished call are gone); a script run or a command given on
\* the command line is the whole work of its process
Done ==
    /\ pc = "done"
    /\ call.op \notin {"run", "command"}
    /\ pc' = "idle"
    /\ wrapped' = Pending
    /\ result' = Pending
    /\ sent' = <<>>
    /\ received' = <<>>
    /\ logins' = <<>>
    /\ UNCHANGED <<program, token, call, stack, log, scriptVars>>

Next ==
    \/ CallGet
    \/ CallGrant
    \/ CallResourceExists
    \/ CallEnsureResourceExists
    \/ CallRoleExists
    \/ CallPrincipalExists
    \/ Try
    \/ ExceptHTTPError
    \/ Login
    \/ Retry
    \/ Decode
    \/ MdevLogin
    \/ MdevGet
    \/ MdevPost
    \/ MdevMain
    \/ McmdRun
    \/ McmdRunLine
    \/ McmdRunEnd
    \/ MdevRun
    \/ MdevRunLine
    \/ MdevRunEnd
    \/ Done

Spec == Init /\ [][Next]_vars

\* a process that only makes calls through the request wrapper
WrapperNext ==
    \/ CallGet
    \/ Try
    \/ ExceptHTTPError
    \/ Login
    \/ Retry
    \/ Decode
    \/ Done

\* every network request and every login comes back, and the interpreter
\* keeps running the call: each step of handle_request is eventually taken
FairSpec ==
    /\ Init
    /\ [][WrapperNext]_vars
    /\ WF_vars(Try)
    /\ WF_vars(ExceptHTTPError)
    /\ WF_vars(Login)
    /\ WF_vars(Retry)
    /\ WF_vars(Decode)

\* ============================================================== properties
WrappedOps == {"get", "grant", "resource_exists", "ensure_resource_exists",
               "role_exists", "principal_exists"}
InWrappedOp == program = "mcmd" /\ call.op \in WrappedOps
Expired(response) == token_is_valid(response) = Returned(FALSE)

CommandOf(i) == parse_args(Split(script[i])).command
RunLines == { i \in 1..Len(script) : CommandOf(i) = "run" }
InScript == call.op = "run" /\ pc \in {"script", "done", "exited"}

\* C1: one call through the request wrapper performs at most one re-login and
\* one retry (two requests in all), whatever the server answers, and a call
\* whose retry is answered with the expired-session error again ends in a
\* McmdError.
C1_OneReloginOneRetry ==
    InWrappedOp =>
        /\ Len(logins) <= 1
        /\ Len(sent) <= 2
        /\ (/\ pc = "done"
            /\ Len(received) >= 2
            /\ Expired(received[1])
            /\ Expired(received[2])) => (result.kind = "raise" /\ result.type = "McmdError")

\* C2: when the first attempt is answered with the expired-session error, the
\* re-login succeeds and the retry succeeds, the wrapped call returns the
\* retry's response and raises nothing.
C2_RetryResponseReturned ==
    (/\ program = "mcmd"
     /\ call.op = "get"
     /\ pc = "done"
     /\ Len(received) = 2
     /\ Expired(received[1])
     /\ Len(logins) = 1
     /\ logins[1] \in Tokens
     /\ received[2].status = 200) => wrapped = Returned(received[2])

\* C3: a script line that parses to the run command fails the whole script,
\* with or without --ignore-errors, in both runners: no line after it is
\* dispatched and the run does not end normally.
C3_RunLineFailsScript ==
    InScript =>
        /\ \A i \in 1..Len(dispatched) :
             \A j \in RunLines : dispatched[i].line < j
        /\ (pc = "done" /\ RunLines /= {}) => result.kind = "raise"

\* C4: in a script without a run line, without --ignore-errors no line is
\* dispatched after the first failing one and the run halts there; with
\* --ignore-errors the run never halts and ends with every line dispatched.
C4_IgnoreErrors ==
    (InScript /\ RunLines = {}) =>
        /\ ~ignore_errors =>
              /\ \A i \in 1..(Len(dispatched) - 1) : dispatched[i].ok
              /\ (\E i \in 1..Len(dispatched) : ~dispatched[i].ok) => pc = "exited"
        /\ ignore_errors =>
              /\ pc /= "exited"
              /\ pc = "done" =>
                    /\ Len(dispatched) = Len(script)
                    /\ \A i \in 1..Len(script) : dispatched[i].line = i

\* a run of [A (succeeds), B (fails), C (succeeds)] with --ignore-errors that
\* has ended with C dispatched after B's failure
C4_Witness ==
    /\ InScript
    /\ pc = "done"
    /\ ignore_errors
    /\ RunLines = {}
    /\ Len(script) = 3
    /\ Len(dispatched) = 3
    /\ dispatched[1].ok /\ ~dispatched[2].ok /\ dispatched[3].ok
    /\ dispatched[3].line = 3

\* C5: the lines dispatched so far are a prefix of the file's lines, in
\* file order, in both runners.
C5_DispatchedIsPrefix ==
    InScript =>
        /\ Len(dispatched) <= Len(script)
        /\ \A i \in 1..Len(dispatched) : dispatched[i].line = i

\* C6: a failing call through the request wrapper fails with McmdError and
\* nothing else, for a transport failure and for an error response of any
\* status, content type and body shape (here: calls that made one attempt).
C6_OnlyMcmdError ==
    (/\ InWrappedOp
     /\ pc = "done"
     /\ logins = <<>>
     /\ wrapped.kind = "raise") => wrapped.type = "McmdError"

\* m occurs in msg as a run of consecutive chunks
Carries(msg, m) ==
    \E k \in 0..(Len(msg) - Len(m)) : SubSeq(msg, k + 1, k + Len(m)) = m

\* C7: the error raised for an error response whose 'errors' list holds
\* several messages carries every one of them.
C7_AllMessagesCarried ==
    (/\ InWrappedOp
     /\ pc = "done"
     /\ Len(received) = 1
     /\ received[1].status >= 400
     /\ is_json(received[1])
     /\ received[1].body.kind = "errors"
     /\ Len(received[1].body.errors) >= 2
     /\ \A i \in 1..Len(received[1].body.errors) :
            received[1].body.errors[i].message /= AbsentMsg
     /\ token_is_valid(received[1]) = Returned(TRUE)) =>
        /\ wrapped.kind = "raise"
        /\ wrapped.type = "McmdError"
        /\ \A i \in 1..Len(received[1].body.errors) :
               Carries(wrapped.message, received[1].body.errors[i].message)

UnknownPrincipalGrant(c) ==
    c.op = "grant" /\ c.args.principal_type \notin PrincipalType

\* C8: grant with a principal type other than USER and ROLE fails with an
\* error before any network call: nothing is sent, no login is made and the
\* session token stays as it was.
C8_UnknownPrincipalNoNetwork ==
    /\ [](UnknownPrincipalGrant(call) =>
            /\ sent = <<>>
            /\ received = <<>>
            /\ logins = <<>>
            /\ pc = "done" => (result.kind = "raise" /\ result.type = "McmdError"))
    /\ [][(UnknownPrincipalGrant(call') /\ pc' /= "idle") => token' = token]_vars

\* a grant to a GROUP principal has failed
C8_Witness ==
    /\ program = "mcmd"
    /\ pc = "done"
    /\ UnknownPrincipalGrant(call)
    /\ call.args.principal_type = "GROUP"
    /\ result.kind = "raise"
    /\ sent = <<>>

ReportedTotal(w) ==
    IF w.kind = "return" /\ w.value.body.kind = "total" THEN w.value.body.total ELSE -1

NotFound(c) ==
    Raised("McmdError", <<"No ", get_label(c.args.resource_type), " found with id ", c.args.identifier>>)

EnsureDone == program = "mcmd" /\ call.op = "ensure_resource_exists" /\ pc = "done"

\* C9 as claimed: ensure_resource_exists raises if and only if the backend
\* reported a total of 0, whatever the outcome of the query, a failing query
\* included.
C9_RaisesIffTotalZero ==
    EnsureDone => (result.kind = "raise" <=> ReportedTotal(wrapped) = 0)

\* C9 as amended: ensure_resource_exists raises the not-found error if and only
\* if the query returned a total of 0, returns if and only if it returned a
\* total above 0, and passes the query's own error on when the query fails.
C9_Amended ==
    EnsureDone =>
        /\ result = NotFound(call) <=> ReportedTotal(wrapped) = 0
        /\ result.kind = "return" <=> ReportedTotal(wrapped) > 0
        /\ wrapped.kind = "raise" => result = wrapped
        /\ (wrapped.kind = "return" /\ ReportedTotal(wrapped) = -1) => result.type = "KeyError"

\* the backend reported no match and ensure_resource_exists raised not-found
C9_Witness ==
    /\ EnsureDone
    /\ ReportedTotal(wrapped) = 0
    /\ result = NotFound(call)

LoginSucceeds(response) ==
    response.status = 200 /\ response.body.kind = "token"

\* C10: the token is empty until the first successful login; a successful
\* login replaces it by the token of the response; a failing login (transport
\* failure, error response, response without a token) fails with AuthError
\* and leaves the stored token as it was.
C10_LoginTokenLifecycle ==
    [][MdevLogin =>
         IF LoginSucceeds(received'[1])
         THEN token' = received'[1].body.token /\ result'.kind = "return"
         ELSE /\ token' = token
              /\ result'.kind = "raise"
              /\ result'.type = "AuthError"]_vars

\* C11: the history is append-only and holds the dispatched command lines:
\* a step that dispatches a line appends exactly that line to the history,
\* also when the command then fails and ends the process, and no other step
\* touches the history.
C11_HistoryRecordsDispatched ==
    [][/\ Len(history') >= Len(history)
       /\ SubSeq(history', 1, Len(history)) = history
       /\ IF dispatched' /= dispatched
          THEN /\ dispatched' = Append(dispatched, dispatched'[Len(dispatched')])
               /\ history' = Append(history, script'[dispatched'[Len(dispatched')].line])
          ELSE history' = history]_vars

\* a script run that ended at its second line, whose command failed, with
\* both lines in the history
C11_Witness ==
    /\ InScript
    /\ pc = "exited"
    /\ Len(dispatched) = 2
    /\ ~dispatched[2].ok
    /\ history = <<script[1], script[2]>>

PrincipalFields(request) == { d \in request.data : d[1] \in {"username", "rolename"} }
RoleQuery(c) ==
    c.op = "role_exists" \/ (c.op = "principal_exists" /\ c.args.principal_type = "ROLE")

\* C12: role names go out upper-cased and user names as given: every request
\* of a ROLE grant carries rolename "CURATOR" for "curator" and for "CURATOR"
\* alike, every role query asks for name "CURATOR", a USER grant and a user
\* query carry the name unchanged, and a grant payload holds exactly one of
\* the fields username and rolename.
C12_RoleUpperUserUnchanged ==
    InWrappedOp =>
        \A i \in 1..Len(sent) :
            /\ call.op = "grant" =>
                  /\ Cardinality(PrincipalFields(sent[i])) = 1
                  /\ call.args.principal_type = "ROLE" =>
                        PrincipalFields(sent[i]) = {<<"rolename", "CURATOR", "">>}
                  /\ call.args.principal_type = "USER" =>
                        PrincipalFields(sent[i]) = {<<"username", call.args.principal_name, "">>}
            /\ RoleQuery(call) =>
                  sent[i].url = <<"rest2/", "sys_sec_Role?q=name==", "CURATOR">>
            /\ (call.op = "principal_exists" /\ call.args.principal_type = "USER") =>
                  sent[i].url = <<"rest2/", "sys_sec_User?q=username==", call.args.principal_name>>

\* a grant to the role "curator" has gone out with rolename "CURATOR"
C12_Witness ==
    /\ InWrappedOp
    /\ call.op = "grant"
    /\ call.args.principal_type = "ROLE"
    /\ call.args.principal_name = "curator"
    /\ Len(sent) >= 1
    /\ <<"rolename", "CURATOR", "">> \in sent[1].data

\* status 401, a JSON content type and a first error with code DS04 whose
\* message begins with "No 'Read metadata' permission"
ExpiredSession(r) ==
    /\ r.status = 401
    /\ \E i \in 1..Len(r.ctype) : r.ctype[i] = "application/json"
    /\ r.body.kind = "errors"
    /\ Len(r.body.errors) >= 1
    /\ r.body.errors[1].code = "DS04"
    /\ Len(r.body.errors[1].message) >= 1
    /\ r.body.errors[1].message[1] = "No 'Read metadata' permission"

\* C13: a wrapped call logs in again if and only if a response to it is the
\* expired-session response; a call whose first response is anything else
\* (success, transport failure, another error response) sends one request,
\* makes no login and no retry, and the token changes only in answer to an
\* expired-session response.
C13_ReloginIffExpiredSession ==
    /\ []((InWrappedOp /\ pc = "done" /\ Len(received) >= 1) =>
            /\ logins /= <<>> <=> ExpiredSession(received[1])
            /\ Len(logins) = Cardinality({ i \in 1..Len(received) : ExpiredSession(received[i]) })
            /\ ~ExpiredSession(received[1]) => (Len(sent) = 1 /\ Len(received) = 1))
    /\ [][(pc = "wrapped" /\ token' /= token) =>
            (received /= <<>> /\ ExpiredSession(received[Len(received)]))]_vars

\* a call answered with the expired-session response has logged in again
C13_Witness ==
    /\ InWrappedOp
    /\ pc = "done"
    /\ Len(received) >= 1
    /\ ExpiredSession(received[1])
    /\ Len(logins) = 1
    /\ logins[1] \in Tokens

C15_RetryCarriesNewToken ==
    /\ [](InWrappedOp =>
            \A i \in 2..Len(sent) :
                /\ Len(logins) >= i - 1
                /\ sent[i].token = logins[i - 1])
    /\ [][(pc = "wrapped" /\ sent' /= sent) =>
            (sent' = Append(sent, sent'[Len(sent')]) /\ sent'[Len(sent')].token = token)]_vars

\* a retry went out with the token of the re-login, which differs from the
\* token of the first attempt
C15_Witness ==
    /\ InWrappedOp
    /\ Len(sent) >= 2
    /\ sent[2].token /= sent[1].token
    /\ sent[2].token = logins[1]

\* C16: when the re-login that follows an expired-session response fails, the
\* call is not retried: no request goes out after the failed login and the
\* wrapped call has ended with an error.
C16_FailedLoginNoRetry ==
    (/\ InWrappedOp
     /\ logins /= <<>>
     /\ logins[Len(logins)] = "failed") =>
        /\ pc = "done"
        /\ wrapped.kind = "raise"
        /\ result.kind = "raise"
        /\ Len(sent) = Len(logins)
        /\ Len(received) = Len(logins)

\* a call whose first re-login failed has ended with the login's error after
\* one request
C16_Witness ==
    /\ InWrappedOp
    /\ pc = "done"
    /\ logins = <<"failed">>
    /\ Len(sent) = 1
    /\ wrapped.kind = "raise"
    /\ wrapped.type = "AuthError"

====
